---- MODULE Spec2Model ----
(***************************************************************************)
(* lvio_fusion: the frontend tracker (Frontend::AddFrame and what it       *)
(* calls), the backend worker (Backend::BackendLoop, Optimize,             *)
(* ForwardPropagate) and the pause/resume handshake between them.          *)
(*                                                                         *)
(* Two threads: the driver, which calls Frontend::AddFrame, and the        *)
(* backend worker started by the Backend constructor.  A step is at most   *)
(* one access to state the other thread reads or writes, so that the       *)
(* interleavings of the steps are the interleavings of the code.           *)
(*                                                                         *)
(* The three condition variables have one possible waiter each.  A thread  *)
(* blocked in wait is at "...Waiting"; notify_one moves it to "...Woken"   *)
(* and does nothing when it is anywhere else.                              *)
(*                                                                         *)
(* Time: frame k has time FrameStep*k and epsilon is 1, so that            *)
(* "time + epsilon" and "forward - window_size_" stay integers.            *)
(***************************************************************************)
EXTENDS Integers, FiniteSets, Sequences, TLC

\* ------------------------------------------------------------- bounds
\* Number of frames the driver feeds to AddFrame.
MaxFrames == 6
\* Largest number of features LK optical flow can track into a frame.
MaxInliers == 3
\* Largest number of landmarks DetectNewFeatures can triangulate.
MaxNewFeatures == 2
\* Backend window_size_, in frames.
WindowFrames == 1
\* Landmark handles in use at one time.
MaxLandmarks == 2
\* The driver feeds frames while the Map has fewer keyframes than this.
MaxKeyframes == 2
\* The same, in the runs that fill a window with inertial residuals.
MaxWindowKeyframes == MaxKeyframes + 1
\* Seconds between two frames.
FrameStep == 5
\* Initializer::num_frames, the keyframes one initializer run takes.
NumInitFrames == 1

\* ------------------------------------------------------------- constants
\* Track: "num_tries >= 4" and "num_tries %= 4".
MaxTries == 4

\* ForwardPropagate, lines 354 and 360: the stage gates, in seconds.
StageATime == 5
StageBTime == 15

Epsilon == 1
window_size_ == FrameStep * WindowFrames
TimeOf(k) == FrameStep * k

FrontendStatuses ==
    {"BUILDING", "INITING", "TRACKING_GOOD", "TRACKING_BAD", "TRACKING_TRY", "LOST"}
TrackingStatuses == {"TRACKING_GOOD", "TRACKING_BAD", "TRACKING_TRY"}
BackendStatuses == {"RUNNING", "TO_PAUSE", "PAUSING"}
Mutexes ==
    {"last_frame_mutex", "frontend_mutex", "backend_mutex", "running_mutex", "pausing_mutex"}

\* The configurations tried: the Frontend constructor's init, tracking,
\* tracking_bad and need_for_keyframe.
Configs ==
    { [init |-> 1, tracking |-> 1, tracking_bad |-> 0, need_for_keyframe |-> 4],
      [init |-> 1, tracking |-> 2, tracking_bad |-> 0, need_for_keyframe |-> 2],
      [init |-> 1, tracking |-> 2, tracking_bad |-> 1, need_for_keyframe |-> 3] }

Frames == 1..MaxFrames
LandmarkIds == 1..MaxLandmarks

\* An adapt::Problem without residual blocks.
NoProblem == [visual |-> {}, imu |-> {}]

VARIABLES
    \* configuration (Frontend constructor, lines 14-16)
    num_features_init_, num_features_tracking_, num_features_tracking_bad_,
    num_features_needed_for_keyframe_,
    imu,            \* Imu::Num() > 0
    preintegration, \* the frames the driver hands over with Frame::preintegration set
    max_keyframes,  \* the driver feeds frames while the Map has fewer keyframes
    \* Frontend
    fstatus,        \* Frontend::status
    fpc,            \* where the driver thread is
    num_tries,      \* static int num_tries of Track
    current_frame,  \* frame number, 0 = null
    last_frame,     \* frame number, 0 = null
    nframes,        \* frames given to AddFrame so far
    tracking_inliers_, \* Track's local: features_left.size() after tracking
    \* Map
    keyframes,      \* Map keyframes, as the set of frame numbers
    landmarks,      \* Map landmarks, as the set of landmark handles
    \* Frame, Feature, Landmark
    current_frame_id, \* static Frame::current_frame_id
    id,             \* frame number -> Frame::id, 0 before Frame::Create
    features_left,  \* frame number -> the landmarks its left features refer to
    observations,   \* landmark -> the frames whose left feature it lists
    \* Backend
    bstatus,        \* Backend::status
    bpc,            \* where the worker thread is
    finished,       \* Backend::finished (time)
    active_kfs,     \* Optimize's snapshot (a local of Optimize)
    forward_kfs,    \* ForwardPropagate's active_kfs (a local of ForwardPropagate)
    owner,          \* mutex -> "none", "driver", "worker"
    \* Inertial initialization
    initialized,    \* initializer_->initialized
    reinit,         \* initializer_->reinit
    initA, initB,   \* Backend::initA, Backend::initB
    Tinit,          \* Backend::Tinit, -1 before the first initializer run
    bImu,           \* the frames whose bImu is true
    last_keyframe,  \* the frames whose last_keyframe is set
    \* Optimize and ForwardPropagate
    problem,        \* the residual blocks of the adapt::Problem being solved
    recovered,      \* the frames recoverData rewrote in the cycle in progress
    \* Frontend caches
    position_cache_,        \* landmark -> "none", or when its entry was computed
    last_frame_pose_cache_, \* the frame whose pose is cached, 0 = none
    relative_motion,        \* the frame Track computed relative_motion for, 0 = none
    \* history
    optimized,      \* the keyframes that were in the window of a completed cycle
    pauseWaited,    \* the Pause in progress took the RUNNING branch
    pendingUpdate,  \* UpdateMap was called while the worker was not in map_update_.wait
    consecFails,    \* failed Track calls in a row, since a success or since LOST
    switchCase      \* the status AddFrame's switch read; "none" outside AddFrame

config == <<num_features_init_, num_features_tracking_, num_features_tracking_bad_,
            num_features_needed_for_keyframe_, imu, preintegration, max_keyframes>>
optVars == <<last_keyframe, problem, recovered, optimized>>
cacheVars == <<position_cache_, last_frame_pose_cache_, relative_motion>>
imuVars == <<initialized, reinit, initA, initB, Tinit, bImu>>
frameVars == <<current_frame, last_frame, nframes>>
mapVars == <<landmarks, current_frame_id, id, features_left, observations>>
backendLocals == <<finished, active_kfs, forward_kfs>>
historyVars == <<pauseWaited, pendingUpdate, consecFails, switchCase>>
vars == <<config, optVars, cacheVars, imuVars, mapVars, fstatus, fpc, num_tries, frameVars, tracking_inliers_, keyframes,
          bstatus, bpc, backendLocals, owner, historyVars>>

InitWith(configs, bound) ==
    /\ \E c \in configs :
          /\ num_features_init_ = c.init
          /\ num_features_tracking_ = c.tracking
          /\ num_features_tracking_bad_ = c.tracking_bad
          /\ num_features_needed_for_keyframe_ = c.need_for_keyframe
    /\ imu \in BOOLEAN
    /\ preintegration = IF imu THEN Frames ELSE {}
    /\ max_keyframes = bound
    /\ last_keyframe = {}
    /\ problem = NoProblem
    /\ recovered = {}
    /\ optimized = {}
    /\ position_cache_ = [l \in LandmarkIds |-> "none"]
    /\ last_frame_pose_cache_ = 0
    /\ relative_motion = 0
    /\ initialized = FALSE
    /\ reinit = FALSE
    /\ initA = FALSE
    /\ initB = FALSE
    /\ Tinit = -1
    /\ bImu = {}
    /\ fstatus \in {"BUILDING", "INITING"}
    /\ fpc = "Idle"
    /\ num_tries = 0
    /\ current_frame = 0
    /\ last_frame = 0
    /\ nframes = 0
    /\ tracking_inliers_ = 0
    /\ keyframes = {}
    /\ landmarks = {}
    /\ current_frame_id = 0
    /\ id = [f \in Frames |-> 0]
    /\ features_left = [f \in Frames |-> {}]
    /\ observations = [l \in LandmarkIds |-> {}]
    /\ bstatus = "RUNNING"
    /\ bpc = "LoopTop"
    /\ finished = 0
    /\ active_kfs = {}
    /\ forward_kfs = {}
    /\ owner = [m \in Mutexes |-> "none"]
    /\ pauseWaited = FALSE
    /\ pendingUpdate = FALSE
    /\ consecFails = 0
    /\ switchCase = "none"

\* The state after the constructors of Frontend and Backend.
Init == InitWith(Configs, MaxKeyframes)

\* The same with one configuration and room for a third keyframe.
WindowInit ==
    /\ InitWith({c \in Configs : c.tracking_bad > 0}, MaxWindowKeyframes)
    /\ imu

\* ------------------------------------------------------------- mutexes
Lock(m, who) == owner' = [owner EXCEPT ![m] = who]
Unlock(m) == owner' = [owner EXCEPT ![m] = "none"]

\* ------------------------------------------------------------- Map
\* Map::Reset(): the Map's keyframes, and its landmarks, after it ("drops all
\* state").
MapAfterReset == {}

\* Map::GetKeyFrames(start): the keyframes with time >= start.
GetKeyFrames(start) == {k \in keyframes : TimeOf(k) >= start}

\* Frame::preintegration is set: the driver hands the frame over with the
\* preintegration of the IMU samples since the frame before.
HasPreintegration(f) == f \in preintegration

\* Initializer::InitializeIMU: initialized after a run that succeeds or not;
\* a run that fails changes nothing.
InitializeIMU(succeeds) == initialized \/ succeeds

\* Mutant of InitializeIMUbImu: the initializer sets no bImu flag itself.
InitializeIMUbImuNone == {}

\* Initializer::InitializeIMU, on success: bImu is set on all keyframes with a
\* preintegration.
InitializeIMUbImu == {k \in keyframes : HasPreintegration(k)}

SetMax(S) == CHOOSE x \in S : \A y \in S : y <= x
SetMin(S) == CHOOSE x \in S : \A y \in S : x <= y
Min(a, b) == IF a <= b THEN a ELSE b

RECURSIVE Smallest(_, _)
Smallest(S, k) ==
    IF k = 0 \/ S = {} THEN {} ELSE {SetMin(S)} \cup Smallest(S \ {SetMin(S)}, k - 1)

\* Map::GetKeyFrames(start, end, max_count): the earliest max_count keyframes
\* with start <= time < end.
GetKeyFramesRange(start, end, max_count) ==
    Smallest({k \in keyframes : TimeOf(k) >= start /\ TimeOf(k) < end}, max_count)

\* Map::InsertKeyFrame(frame): the keyframes and Frame::current_frame_id after
\* it.  Keyframe ids strictly increase with insertion order: the counter
\* Frame::Create reads advances at each promotion.  Frame::last_keyframe refers
\* to the immediately preceding keyframe, if the Map has one.
InsertKeyFrame(frame) ==
    /\ keyframes' = keyframes \cup {frame}
    /\ current_frame_id' = current_frame_id + 1
    /\ last_keyframe' = IF keyframes = {} THEN last_keyframe \ {frame}
                        ELSE last_keyframe \cup {frame}

\* Landmark::FirstFrame(): the frame of the landmark's earliest observation.
FirstFrame(obs, l) == IF obs[l] = {} THEN 0 ELSE SetMin(obs[l])

\* Map::RemoveLandmark(l) detaches the features listed in l's observations
\* and drops l.  st is [feat, obs, lms]: feature tables, observations, Map
\* landmarks.
RemoveLandmark(st, l) ==
    [feat |-> [f \in Frames |-> IF f \in st.obs[l] THEN st.feat[f] \ {l} ELSE st.feat[f]],
     obs |-> [st.obs EXCEPT ![l] = {}],
     lms |-> st.lms \ {l}]

\* ------------------------------------------------------------- Frame
\* Frame::Create, line 13: id = current_frame_id + 1.
FrameCreate == current_frame_id + 1

\* The frames a shared_ptr still refers to: the Map's keyframes, current_frame,
\* last_frame, the worker's snapshots, and the frames the driver has not handed
\* to AddFrame yet.  The others are destroyed, and their features with them.
Live(kfs, cur, last, snapshots) ==
    kfs \cup ({cur, last} \ {0}) \cup snapshots \cup {f \in Frames : f > nframes}
Destroy(feat, live) == [f \in Frames |-> IF f \in live THEN feat[f] ELSE {}]
DestroyIds(ids, live) == [f \in Frames |-> IF f \in live THEN ids[f] ELSE 0]

\* Landmark handles nothing refers to; MapPoint::Create gives the smallest of
\* them to new landmarks.
FreeIds == LandmarkIds \ (landmarks \cup UNION {features_left[f] : f \in Frames})

\* A null or expired pointer is dereferenced: the process ends.
Crash == fpc' = "Crashed" /\ bpc' = "Crashed"

\* ------------------------------------------------------------- Backend API
\* Backend::UpdateMap: map_update_.notify_one().  The notification reaches the
\* worker only if it is blocked in map_update_.wait at that moment.
UpdateMap ==
    /\ bpc' = IF bpc = "MapWaiting" THEN "MapWoken" ELSE bpc
    /\ pendingUpdate' = IF bpc \in {"MapWaiting", "MapWoken"} THEN pendingUpdate ELSE TRUE

\* Backend::Pause, line 27: the test of status.
PauseCheck ==
    /\ fpc = "PauseCheck"
    /\ fpc' = IF bstatus = "RUNNING" THEN "PauseSet" ELSE "MapReset"
    /\ pauseWaited' = (bstatus = "RUNNING")
    /\ UNCHANGED <<config, optVars, cacheVars, imuVars, mapVars, fstatus, num_tries, frameVars, tracking_inliers_, keyframes,
                   bstatus, bpc, backendLocals, owner, pendingUpdate, consecFails,
                   switchCase>>

\* Backend::Pause, lines 29-30: lock pausing_mutex_, status = TO_PAUSE.
PauseSet ==
    /\ fpc = "PauseSet"
    /\ owner["pausing_mutex"] = "none"
    /\ Lock("pausing_mutex", "driver")
    /\ bstatus' = "TO_PAUSE"
    /\ fpc' = "PauseWait"
    /\ UNCHANGED <<config, optVars, cacheVars, imuVars, mapVars, fstatus, num_tries, frameVars, tracking_inliers_, keyframes,
                   bpc, backendLocals, historyVars>>

\* Backend::Pause, line 31: pausing_.wait(lock) releases the mutex and blocks.
PauseWait ==
    /\ fpc = "PauseWait"
    /\ Unlock("pausing_mutex")
    /\ fpc' = "PauseWaiting"
    /\ UNCHANGED <<config, optVars, cacheVars, imuVars, mapVars, fstatus, num_tries, frameVars, tracking_inliers_, keyframes,
                   bstatus, bpc, backendLocals, historyVars>>

\* Backend::Pause, lines 31-33: the wait returns and Pause returns.
PauseReturn ==
    /\ fpc = "PauseWoken"
    /\ fpc' = "MapReset"
    /\ UNCHANGED <<config, optVars, cacheVars, imuVars, mapVars, fstatus, num_tries, frameVars, tracking_inliers_, keyframes,
                   bstatus, bpc, backendLocals, owner, historyVars>>

\* Backend::Continue, line 37: the test of status.
ContinueCheck ==
    /\ fpc = "ContinueCheck"
    /\ fpc' = IF bstatus = "PAUSING" THEN "ContinueSet" ELSE "ResetStatus"
    /\ UNCHANGED <<config, optVars, cacheVars, imuVars, mapVars, fstatus, num_tries, frameVars, tracking_inliers_, keyframes,
                   bstatus, bpc, backendLocals, owner, historyVars>>

\* Backend::Continue, line 39: status = RUNNING.
ContinueSet ==
    /\ fpc = "ContinueSet"
    /\ bstatus' = "RUNNING"
    /\ fpc' = "ContinueNotify"
    /\ UNCHANGED <<config, optVars, cacheVars, imuVars, mapVars, fstatus, num_tries, frameVars, tracking_inliers_, keyframes,
                   bpc, backendLocals, owner, historyVars>>

\* Backend::Continue, line 40: running_.notify_one().
ContinueNotify ==
    /\ fpc = "ContinueNotify"
    /\ bpc' = IF bpc = "RunWaiting" THEN "RunWoken" ELSE bpc
    /\ fpc' = "ResetStatus"
    /\ UNCHANGED <<config, optVars, cacheVars, imuVars, mapVars, fstatus, num_tries, frameVars, tracking_inliers_, keyframes,
                   bstatus, backendLocals, owner, historyVars>>

\* ------------------------------------------------------------- Frontend
\* Mutant of TrackClassify: a TRACKING_BAD track does not zero num_tries.
TrackClassifyKeepsTries(n, tries, tracking, tracking_bad) ==
    IF n > tracking
    THEN [status |-> "TRACKING_GOOD", tries |-> 0, ok |-> TRUE]
    ELSE IF n > tracking_bad
    THEN [status |-> "TRACKING_BAD", tries |-> tries, ok |-> TRUE]
    ELSE [status |-> IF tries + 1 >= MaxTries THEN "LOST" ELSE "TRACKING_TRY",
          tries |-> (tries + 1) % MaxTries,
          ok |-> FALSE]

\* Mutant of TrackClassify: ">=" for ">" in the test against tracking.
TrackClassifyOffByOne(n, tries, tracking, tracking_bad) ==
    IF n >= tracking
    THEN [status |-> "TRACKING_GOOD", tries |-> 0, ok |-> TRUE]
    ELSE IF n > tracking_bad
    THEN [status |-> "TRACKING_BAD", tries |-> 0, ok |-> TRUE]
    ELSE [status |-> IF tries + 1 >= MaxTries THEN "LOST" ELSE "TRACKING_TRY",
          tries |-> (tries + 1) % MaxTries,
          ok |-> FALSE]

\* Track, lines 61-83: the classification by the number of tracked features.
TrackClassify(n, tries, tracking, tracking_bad) ==
    IF n > tracking
    THEN [status |-> "TRACKING_GOOD", tries |-> 0, ok |-> TRUE]
    ELSE IF n > tracking_bad
    THEN [status |-> "TRACKING_BAD", tries |-> 0, ok |-> TRUE]
    ELSE [status |-> IF tries + 1 >= MaxTries THEN "LOST" ELSE "TRACKING_TRY",
          tries |-> (tries + 1) % MaxTries,
          ok |-> FALSE]

\* AddFrame, lines 21-49: lock last_frame_mutex, current_frame = frame,
\* switch (status).  BUILDING matches no case.  frame_id is the id Frame::Create
\* gave the frame.
AddFrameStartWith(frame_id) ==
    /\ fpc = "Idle"
    /\ nframes < MaxFrames
    /\ Cardinality(keyframes) < max_keyframes
    /\ owner["last_frame_mutex"] = "none"
    /\ Lock("last_frame_mutex", "driver")
    /\ nframes' = nframes + 1
    /\ current_frame' = nframes + 1
    /\ LET live == Live(keyframes, nframes + 1, last_frame, active_kfs \cup forward_kfs)
       IN /\ id' = [DestroyIds(id, live) EXCEPT ![nframes + 1] = frame_id]
          /\ features_left' = Destroy(features_left, live)
          /\ bImu' = bImu \cap live
          /\ last_keyframe' = last_keyframe \cap live
          /\ optimized' = optimized \cap live
    /\ fpc' = CASE fstatus = "INITING" -> "StereoInit"
                [] fstatus \in TrackingStatuses -> "TrackLastFrame"
                [] fstatus = "LOST" -> "PauseCheck"
                [] OTHER -> "Finish"
    /\ switchCase' = fstatus
    /\ UNCHANGED <<config, problem, recovered, cacheVars, initialized, reinit, initA, initB, Tinit, landmarks, current_frame_id, observations, fstatus, num_tries, last_frame, tracking_inliers_, keyframes,
                   bstatus, bpc, backendLocals, pauseWaited, pendingUpdate, consecFails>>

\* The driver creates a frame and hands it to AddFrame at once.
AddFrameStart == AddFrameStartWith(FrameCreate)

\* The driver creates the next frame (Frame::Create, lines 10-16) before it
\* hands it to AddFrame, at any moment of the AddFrame call before.
CreateFrameAhead ==
    /\ nframes < MaxFrames
    /\ fpc # "Crashed"
    /\ id[nframes + 1] = 0
    /\ id' = [id EXCEPT ![nframes + 1] = FrameCreate]
    /\ UNCHANGED <<config, optVars, cacheVars, imuVars, landmarks, current_frame_id,
                   features_left, observations, fstatus, fpc, num_tries, frameVars,
                   tracking_inliers_, keyframes, bstatus, bpc, backendLocals, owner,
                   historyVars>>

\* The driver hands a frame created before to AddFrame.
AddFrameStartCreated ==
    /\ nframes < MaxFrames
    /\ id[nframes + 1] # 0
    /\ AddFrameStartWith(id[nframes + 1])

\* DetectNewFeatures, lines 243-252, for the landmarks `new` triangulated on
\* current_frame, from the feature tables feat and the observations obs.
\* Line 252 caches the position of each new landmark.
DetectNewFeatures(feat, obs, new) ==
    /\ features_left' = [feat EXCEPT ![current_frame] = @ \cup new]
    /\ observations' = [l \in LandmarkIds |-> IF l \in new THEN {current_frame} ELSE obs[l]]
    /\ landmarks' = landmarks \cup new
    /\ position_cache_' = [l \in LandmarkIds |->
                              IF l \in new THEN "fresh" ELSE position_cache_[l]]

\* Mutant of StereoInit: "<=" for "<" in the test against num_features_init_.
StereoInitOffByOne ==
    /\ fpc = "StereoInit"
    /\ \E num_new_features \in 0..Min(MaxNewFeatures, Cardinality(FreeIds)) :
          /\ DetectNewFeatures(features_left, observations,
                               Smallest(FreeIds, num_new_features))
          /\ IF num_new_features <= num_features_init_
             THEN /\ fpc' = "Finish"
                  /\ UNCHANGED <<fstatus, keyframes, current_frame_id, last_keyframe>>
             ELSE /\ fstatus' = "TRACKING_GOOD"
                  /\ InsertKeyFrame(current_frame)
                  /\ fpc' = "UpdateMap"
    /\ UNCHANGED <<config, problem, recovered, optimized, last_frame_pose_cache_, relative_motion, imuVars, id, num_tries, frameVars, tracking_inliers_, bstatus, bpc,
                   backendLocals, owner, historyVars>>

\* StereoInit, lines 186-201.  AddFrame does not read its result.
StereoInit ==
    /\ fpc = "StereoInit"
    /\ \E num_new_features \in 0..Min(MaxNewFeatures, Cardinality(FreeIds)) :
          /\ DetectNewFeatures(features_left, observations,
                               Smallest(FreeIds, num_new_features))
          /\ IF num_new_features < num_features_init_
             THEN /\ fpc' = "Finish"
                  /\ UNCHANGED <<fstatus, keyframes, current_frame_id, last_keyframe>>
             ELSE /\ fstatus' = "TRACKING_GOOD"
                  /\ InsertKeyFrame(current_frame)
                  /\ fpc' = "UpdateMap"
    /\ UNCHANGED <<config, problem, recovered, optimized, last_frame_pose_cache_, relative_motion, imuVars, id, num_tries, frameVars, tracking_inliers_, bstatus, bpc,
                   backendLocals, owner, historyVars>>

\* Track, lines 58-61: TrackLastFrame reads last_frame's features and their
\* landmarks (lines 144-153) and attaches a feature to current_frame for each
\* one LK flow tracks (lines 170-179), without adding it to the landmark's
\* observations.  A feature of last_frame whose landmark is gone gives a null
\* pointer at line 149.  position_cache_[id] at line 149 inserts a
\* default-constructed entry for an id the cache does not have.
TrackLastFrame ==
    /\ fpc = "TrackLastFrame"
    /\ IF last_frame = 0 \/ ~(features_left[last_frame] \subseteq landmarks)
       THEN /\ Crash
            /\ UNCHANGED <<features_left, tracking_inliers_, position_cache_>>
       ELSE /\ \E tracked \in SUBSET features_left[last_frame] :
                  /\ Cardinality(tracked) <= MaxInliers
                  /\ features_left' = [features_left EXCEPT ![current_frame] = tracked]
                  /\ tracking_inliers_' = Cardinality(tracked)
            /\ position_cache_' = [l \in LandmarkIds |->
                                      IF l \in features_left[last_frame]
                                         /\ position_cache_[l] = "none"
                                      THEN "default" ELSE position_cache_[l]]
            /\ fpc' = "Track"
            /\ UNCHANGED bpc
    /\ UNCHANGED <<config, optVars, last_frame_pose_cache_, relative_motion, imuVars, landmarks, current_frame_id, id, observations, fstatus,
                   num_tries, frameVars, keyframes, bstatus, backendLocals, owner,
                   historyVars>>

\* Mutant of NeedKeyframe: "<=" for "<".
NeedKeyframeOrEqual(n) == n <= num_features_needed_for_keyframe_

\* Track, line 85: the test that calls CreateKeyframe.
NeedKeyframe(n) == n < num_features_needed_for_keyframe_

\* Mutant of Track: AddFrame's "return false" is missing, so a failed track
\* falls through to "case LOST" and Reset.
TrackFallThrough ==
    /\ fpc = "Track"
    /\ LET r == TrackClassify(tracking_inliers_, num_tries, num_features_tracking_,
                              num_features_tracking_bad_)
       IN /\ fstatus' = r.status
          /\ num_tries' = r.tries
          /\ fpc' = IF ~r.ok THEN "PauseCheck"
                    ELSE IF NeedKeyframe(tracking_inliers_)
                    THEN "CreateKeyframe" ELSE "Finish"
    /\ consecFails' = IF tracking_inliers_ > num_features_tracking_bad_ THEN 0
                      ELSE IF consecFails + 1 = MaxTries THEN 0
                      ELSE consecFails + 1
    /\ tracking_inliers_' = 0
    /\ UNCHANGED <<config, optVars, cacheVars, imuVars, mapVars, frameVars, keyframes, bstatus, bpc, backendLocals, owner,
                   pauseWaited, pendingUpdate, switchCase>>

\* Track, lines 63-90, and AddFrame's "return false" (lines 41-44).
Track ==
    /\ fpc = "Track"
    /\ LET r == TrackClassify(tracking_inliers_, num_tries, num_features_tracking_,
                              num_features_tracking_bad_)
       IN /\ fstatus' = r.status
          /\ num_tries' = r.tries
          /\ IF ~r.ok
             THEN /\ fpc' = "Idle"
                  /\ switchCase' = "none"
                  /\ Unlock("last_frame_mutex")
             ELSE /\ fpc' = IF NeedKeyframe(tracking_inliers_)
                            THEN "CreateKeyframe" ELSE "Finish"
                  /\ UNCHANGED <<owner, switchCase>>
    /\ consecFails' = IF tracking_inliers_ > num_features_tracking_bad_ THEN 0
                      ELSE IF consecFails + 1 = MaxTries THEN 0
                      ELSE consecFails + 1
    /\ tracking_inliers_' = 0
    /\ UNCHANGED <<config, optVars, cacheVars, imuVars, mapVars, frameVars, keyframes, bstatus, bpc, backendLocals,
                   pauseWaited, pendingUpdate>>

\* Mutant of CreateKeyframe: the Map keeps only the newest keyframe.
CreateKeyframeReplaces ==
    /\ fpc = "CreateKeyframe"
    /\ features_left[current_frame] \subseteq landmarks
    /\ DetectNewFeatures(
           features_left,
           [l \in LandmarkIds |->
               IF l \in features_left[current_frame]
               THEN observations[l] \cup {current_frame} ELSE observations[l]],
           {})
    /\ keyframes' = {current_frame}
    /\ current_frame_id' = current_frame_id + 1
    /\ last_keyframe' = IF keyframes = {} THEN last_keyframe \ {current_frame}
                        ELSE last_keyframe \cup {current_frame}
    /\ fpc' = "UpdateMap"
    /\ UNCHANGED <<config, problem, recovered, optimized, last_frame_pose_cache_, relative_motion, imuVars, id, fstatus, num_tries, frameVars, tracking_inliers_, bstatus,
                   bpc, backendLocals, owner, historyVars>>

\* CreateKeyframe, lines 95-105: add current_frame's features to their
\* landmarks' observations (a landmark that is gone gives a null pointer at
\* line 100), DetectNewFeatures, InsertKeyFrame.
CreateKeyframe ==
    /\ fpc = "CreateKeyframe"
    /\ IF ~(features_left[current_frame] \subseteq landmarks)
       THEN /\ Crash
            /\ UNCHANGED <<features_left, observations, landmarks, keyframes,
                           current_frame_id, last_keyframe, position_cache_>>
       ELSE /\ \E num_new_features \in 0..Min(MaxNewFeatures, Cardinality(FreeIds)) :
                  DetectNewFeatures(
                      features_left,
                      [l \in LandmarkIds |->
                          IF l \in features_left[current_frame]
                          THEN observations[l] \cup {current_frame} ELSE observations[l]],
                      Smallest(FreeIds, num_new_features))
            /\ InsertKeyFrame(current_frame)
            /\ fpc' = "UpdateMap"
            /\ UNCHANGED bpc
    /\ UNCHANGED <<config, problem, recovered, optimized, last_frame_pose_cache_, relative_motion, imuVars, id, fstatus, num_tries, frameVars, tracking_inliers_, bstatus,
                   backendLocals, owner, historyVars>>

\* CreateKeyframe line 108 and StereoInit line 200: backend_->UpdateMap().
FrontendUpdateMap ==
    /\ fpc = "UpdateMap"
    /\ UpdateMap
    /\ fpc' = "Finish"
    /\ UNCHANGED <<config, optVars, cacheVars, imuVars, mapVars, fstatus, num_tries, frameVars, tracking_inliers_, keyframes,
                   bstatus, backendLocals, owner, pauseWaited, consecFails, switchCase>>

\* AddFrame, lines 51-53; on the way from a Track that succeeded, Track's
\* line 89 before them: relative_motion = current_frame->pose *
\* last_frame_pose_cache_.inverse().
AddFrameFinish ==
    /\ fpc = "Finish"
    /\ last_frame' = current_frame
    /\ last_frame_pose_cache_' = current_frame
    /\ relative_motion' = IF switchCase \in TrackingStatuses THEN current_frame
                          ELSE relative_motion
    /\ LET live == Live(keyframes, current_frame, current_frame,
                        active_kfs \cup forward_kfs)
       IN /\ features_left' = Destroy(features_left, live)
          /\ id' = DestroyIds(id, live)
          /\ bImu' = bImu \cap live
          /\ last_keyframe' = last_keyframe \cap live
          /\ optimized' = optimized \cap live
    /\ Unlock("last_frame_mutex")
    /\ fpc' = "Idle"
    /\ switchCase' = "none"
    /\ UNCHANGED <<config, problem, recovered, position_cache_, initialized, reinit, initA, initB, Tinit, landmarks, current_frame_id, observations, fstatus, num_tries,
                   current_frame, nframes, tracking_inliers_, keyframes, bstatus, bpc,
                   backendLocals, pauseWaited, pendingUpdate, consecFails>>

\* Reset, line 267: map_->Reset().
MapReset ==
    /\ fpc = "MapReset"
    /\ keyframes' = MapAfterReset
    /\ landmarks' = MapAfterReset
    /\ observations' = [l \in LandmarkIds |-> {}]
    /\ LET live == Live(MapAfterReset, current_frame, last_frame,
                        active_kfs \cup forward_kfs)
       IN /\ features_left' = Destroy(features_left, live)
          /\ id' = DestroyIds(id, live)
          /\ bImu' = bImu \cap live
          /\ last_keyframe' = last_keyframe \cap live
          /\ optimized' = optimized \cap live
    /\ fpc' = "ContinueCheck"
    /\ UNCHANGED <<config, problem, recovered, cacheVars, initialized, reinit, initA, initB, Tinit,
                   current_frame_id, fstatus, num_tries, frameVars,
                   tracking_inliers_, bstatus, bpc, backendLocals, owner, historyVars>>

\* Mutant of ResetStatus: Reset leaves the status as it found it.
ResetStatusKeepsLost ==
    /\ fpc = "ResetStatus"
    /\ pauseWaited' = FALSE
    /\ fpc' = "StereoInit"
    /\ UNCHANGED <<config, optVars, cacheVars, imuVars, mapVars, fstatus, num_tries, frameVars, tracking_inliers_, keyframes,
                   bstatus, bpc, backendLocals, owner, pendingUpdate, consecFails,
                   switchCase>>

\* Reset, line 269: status = INITING; AddFrame line 47 goes on to StereoInit.
ResetStatus ==
    /\ fpc = "ResetStatus"
    /\ fstatus' = "INITING"
    /\ pauseWaited' = FALSE
    /\ fpc' = "StereoInit"
    /\ UNCHANGED <<config, optVars, cacheVars, imuVars, mapVars, num_tries, frameVars, tracking_inliers_, keyframes, bstatus,
                   bpc, backendLocals, owner, pendingUpdate, consecFails, switchCase>>


\* ------------------------------------------------------------- Backend worker
\* Mutant of LoopTop: the test of status is missing.
LoopTopNoCheck ==
    /\ bpc = "LoopTop"
    /\ bpc' = "SetPausing"
    /\ Lock("running_mutex", "worker")
    /\ UNCHANGED <<config, optVars, cacheVars, imuVars, mapVars, fstatus, fpc, num_tries, frameVars, tracking_inliers_,
                   keyframes, bstatus, backendLocals, historyVars>>

\* BackendLoop, lines 48-49 and 55: lock running_mutex_, test status; when it
\* is not TO_PAUSE go on to map_update_.wait(lock), which releases the mutex.
LoopTop ==
    /\ bpc = "LoopTop"
    /\ IF bstatus = "TO_PAUSE"
       THEN /\ bpc' = "SetPausing"
            /\ Lock("running_mutex", "worker")
       ELSE /\ bpc' = "MapWaiting"
            /\ UNCHANGED owner
    /\ UNCHANGED <<config, optVars, cacheVars, imuVars, mapVars, fstatus, fpc, num_tries, frameVars, tracking_inliers_,
                   keyframes, bstatus, backendLocals, historyVars>>

\* BackendLoop, line 51: status = PAUSING.
SetPausing ==
    /\ bpc = "SetPausing"
    /\ bstatus' = "PAUSING"
    /\ bpc' = "NotifyPausing"
    /\ UNCHANGED <<config, optVars, cacheVars, imuVars, mapVars, fstatus, fpc, num_tries, frameVars, tracking_inliers_,
                   keyframes, backendLocals, owner, historyVars>>

\* BackendLoop, line 52: pausing_.notify_one().
NotifyPausing ==
    /\ bpc = "NotifyPausing"
    /\ fpc' = IF fpc = "PauseWaiting" THEN "PauseWoken" ELSE fpc
    /\ bpc' = "RunWait"
    /\ UNCHANGED <<config, optVars, cacheVars, imuVars, mapVars, fstatus, num_tries, frameVars, tracking_inliers_, keyframes,
                   bstatus, backendLocals, owner, historyVars>>

\* BackendLoop, line 53: running_.wait(lock) releases the mutex and blocks.
RunWait ==
    /\ bpc = "RunWait"
    /\ Unlock("running_mutex")
    /\ bpc' = "RunWaiting"
    /\ UNCHANGED <<config, optVars, cacheVars, imuVars, mapVars, fstatus, fpc, num_tries, frameVars, tracking_inliers_,
                   keyframes, bstatus, backendLocals, historyVars>>

\* BackendLoop, lines 53-55: running_.wait returns; map_update_.wait(lock) is
\* next and releases the mutex again.
RunWake ==
    /\ bpc = "RunWoken"
    /\ bpc' = "MapWaiting"
    /\ UNCHANGED <<config, optVars, cacheVars, imuVars, mapVars, fstatus, fpc, num_tries, frameVars, tracking_inliers_,
                   keyframes, bstatus, backendLocals, owner, historyVars>>

\* BackendLoop, lines 55-57, and Optimize, lines 194-199: map_update_.wait
\* returns with running_mutex_; Optimize locks mutex and snapshots the window.
\* With an empty window Optimize returns and the loop iteration ends.
OptimizeStart ==
    /\ bpc = "MapWoken"
    /\ owner["backend_mutex"] = "none"
    /\ pendingUpdate' = FALSE
    /\ IF GetKeyFrames(finished) = {}
       THEN /\ bpc' = "LoopTop"
            /\ UNCHANGED <<active_kfs, owner>>
       ELSE /\ bpc' = "Cleanup"
            /\ active_kfs' = GetKeyFrames(finished)
            /\ owner' = [owner EXCEPT !["running_mutex"] = "worker",
                                      !["backend_mutex"] = "worker"]
    /\ UNCHANGED <<config, optVars, cacheVars, imuVars, mapVars, fstatus, fpc, num_tries, frameVars, tracking_inliers_,
                   keyframes, bstatus, finished, forward_kfs, pauseWaited, consecFails,
                   switchCase>>

\* Mutant of CleanupFeature: the test "frame != first_frame" is missing.
CleanupFeatureDetachesFirst(st, f, l, outliers) ==
    LET Detach(s) ==
            IF <<f, l>> \in outliers
            THEN [s EXCEPT !.obs[l] = @ \ {f}, !.feat[f] = @ \ {l}]
            ELSE s
        Drop(d) ==
            IF Cardinality(d.obs[l]) <= 1 /\ id[f] # current_frame_id
            THEN RemoveLandmark(d, l)
            ELSE d
    IN CHOOSE r \in {Drop(d) : d \in {Detach(s) : s \in {st}}} : TRUE

\* Optimize, lines 227-238, for the feature of keyframe f on landmark l.  The
\* reprojection error is over 10 for the features in outliers.  (The
\* intermediate states are bound by set constructors so that each is computed
\* once.)
CleanupFeature(st, f, l, outliers) ==
    LET Detach(s) ==
            IF f # FirstFrame(s.obs, l) /\ <<f, l>> \in outliers
            THEN [s EXCEPT !.obs[l] = @ \ {f}, !.feat[f] = @ \ {l}]
            ELSE s
        Drop(d) ==
            IF Cardinality(d.obs[l]) <= 1 /\ id[f] # current_frame_id
            THEN RemoveLandmark(d, l)
            ELSE d
    IN CHOOSE r \in {Drop(d) : d \in {Detach(s) : s \in {st}}} : TRUE

\* Optimize, lines 224-239: the loop over a copy of the keyframe's feature table.
RECURSIVE CleanupFeatures(_, _, _, _)
CleanupFeatures(st, f, ls, outliers) ==
    IF ls = {} THEN st
    ELSE CHOOSE r \in {CleanupFeatures(s, f, ls \ {l}, outliers) :
                           s \in {CleanupFeature(st, f, l, outliers) : l \in {SetMin(ls)}},
                           l \in {SetMin(ls)}} : TRUE

\* Optimize, lines 221-240: the loop over the window's keyframes, by time.
RECURSIVE CleanupFrames(_, _, _)
CleanupFrames(st, fs, outliers) ==
    IF fs = {} THEN st
    ELSE CHOOSE r \in {CleanupFrames(CleanupFeatures(s, f, s.feat[f], outliers),
                                     fs \ {f}, outliers) :
                           s \in {st}, f \in {SetMin(fs)}} : TRUE

\* Mutant of VisualResiduals: "<=" for "<" in the test against start_time.
VisualResidualsOffByOne(window, feat, obs) ==
    LET start_time == TimeOf(SetMin(window))
        Residual(f, l) ==
            LET first_frame == FirstFrame(obs, l)
            IN IF TimeOf(first_frame) <= start_time
               THEN {[type |-> "PoseOnlyReprojectionError", frame |-> f, landmark |-> l,
                      first_frame |-> 0]}
               ELSE IF first_frame # f
               THEN {[type |-> "TwoFrameReprojectionError", frame |-> f, landmark |-> l,
                      first_frame |-> first_frame]}
               ELSE {}
    IN UNION {Residual(p[1], p[2]) : p \in {q \in window \X LandmarkIds : q[2] \in feat[q[1]]}}

\* Mutant of VisualResiduals: first_frame->time is not compared with
\* start_time.
VisualResidualsNoStartTime(window, feat, obs) ==
    LET Residual(f, l) ==
            LET first_frame == FirstFrame(obs, l)
            IN IF first_frame # f
               THEN {[type |-> "TwoFrameReprojectionError", frame |-> f, landmark |-> l,
                      first_frame |-> first_frame]}
               ELSE {}
    IN UNION {Residual(p[1], p[2]) : p \in {q \in window \X LandmarkIds : q[2] \in feat[q[1]]}}

\* BuildProblem, lines 93-118: the visual residual blocks for the frames of
\* window.  start_time is the time of the earliest of them.
VisualResiduals(window, feat, obs) ==
    LET start_time == TimeOf(SetMin(window))
        Residual(f, l) ==
            LET first_frame == FirstFrame(obs, l)
            IN IF TimeOf(first_frame) < start_time
               THEN {[type |-> "PoseOnlyReprojectionError", frame |-> f, landmark |-> l,
                      first_frame |-> 0]}
               ELSE IF first_frame # f
               THEN {[type |-> "TwoFrameReprojectionError", frame |-> f, landmark |-> l,
                      first_frame |-> first_frame]}
               ELSE {}
    IN UNION {Residual(p[1], p[2]) : p \in {q \in window \X LandmarkIds : q[2] \in feat[q[1]]}}

\* Mutant of ImuResiduals: isimu is not tested.
ImuResidualsAlways(window, flagged, isimu) ==
    IF imu /\ initialized
    THEN {p \in window \X window :
             /\ p[1] < p[2] /\ ~(\E k \in window : p[1] < k /\ k < p[2])
             /\ p[2] \in flagged /\ p[2] \in last_keyframe /\ HasPreintegration(p[2])
             /\ p[1] \in flagged /\ p[1] \in last_keyframe}
    ELSE {}

\* BuildProblem, lines 120-154: the IMU residual blocks, as pairs <<last_frame,
\* current_frame>> of frames of window that follow each other; flagged are the
\* frames whose bImu is set.
ImuResiduals(window, flagged, isimu) ==
    IF imu /\ initialized /\ isimu
    THEN {p \in window \X window :
             /\ p[1] < p[2] /\ ~(\E k \in window : p[1] < k /\ k < p[2])
             /\ p[2] \in flagged /\ p[2] \in last_keyframe /\ HasPreintegration(p[2])
             /\ p[1] \in flagged /\ p[1] \in last_keyframe}
    ELSE {}

\* BuildProblem, lines 86-156.
BuildProblem(window, feat, obs, flagged, isimu) ==
    [visual |-> VisualResiduals(window, feat, obs),
     imu |-> ImuResiduals(window, flagged, isimu)]

\* Mutant of recoverData: the test of preintegration, last_keyframe and bImu
\* is missing.
recoverDataAll(window) == window

\* recoverData, lines 165-189: the frames of window whose pose, velocity and
\* bias it rewrites.
recoverData(window) ==
    {frame \in window :
        ~(~HasPreintegration(frame) \/ frame \notin last_keyframe \/ frame \notin bImu)}

\* The cache after a solve rewrote the poses its positions were computed from.
Outdated(cache) ==
    [l \in LandmarkIds |-> IF cache[l] = "fresh" THEN "stale" ELSE cache[l]]

\* Optimize, lines 200-240: BuildProblem, Solve and recoverData rewrite the
\* poses, velocities and biases of the window's keyframes; the outlier cleanup
\* detaches features from keyframes and landmarks and removes landmarks.  A
\* feature whose landmark is gone gives a null pointer at line 104.
OptimizeCleanupWith(outliers) ==
    /\ bpc = "Cleanup"
    /\ IF \E f \in active_kfs : ~(features_left[f] \subseteq landmarks)
       THEN /\ Crash
            /\ UNCHANGED <<features_left, observations, landmarks, position_cache_, problem,
                           recovered>>
       ELSE /\ LET st == CleanupFrames([feat |-> features_left, obs |-> observations,
                                     lms |-> landmarks], active_kfs, outliers)
               IN /\ features_left' = st.feat
                  /\ observations' = st.obs
                  /\ landmarks' = st.lms
            /\ problem' = BuildProblem(active_kfs, features_left, observations, bImu, TRUE)
            /\ recovered' = IF imu /\ initialized THEN recoverData(active_kfs) ELSE {}
            /\ position_cache_' = Outdated(position_cache_)
            /\ bpc' = "ForwardPropagate"
            /\ UNCHANGED fpc
    /\ UNCHANGED <<config, last_keyframe, optimized, last_frame_pose_cache_, relative_motion, imuVars, current_frame_id, id, fstatus, num_tries, frameVars,
                   tracking_inliers_, keyframes, bstatus, backendLocals, owner,
                   historyVars>>

\* The left features of the window's keyframes, as <<keyframe, landmark>>.
WindowFeatures == {p \in active_kfs \X LandmarkIds : p[2] \in features_left[p[1]]}

\* Optimize, lines 200-240; compute_reprojection_error (line 229) may exceed
\* 10 for any of the features.
OptimizeCleanup == \E outliers \in SUBSET WindowFeatures : OptimizeCleanupWith(outliers)

\* Optimize, line 264: forward = time of the newest window keyframe + epsilon.
Forward == TimeOf(SetMax(active_kfs)) + Epsilon

\* Mutant of NewFinished: "+" for "-".
NewFinishedAdds == Forward + window_size_

\* Optimize, line 266: finished = forward - window_size_.
NewFinished == Forward - window_size_

\* Mutant of ForwardFrames: last_frame is not added.
ForwardFramesKeyframesOnly == GetKeyFrames(Forward)

\* ForwardPropagate, lines 340-346: the keyframes from `time` on, and
\* last_frame if none of them has its time.
ForwardFrames == GetKeyFrames(Forward) \cup {last_frame}

\* ForwardPropagate, lines 339-346: lock the frontend's `mutex`, read
\* last_frame, build the forward set.  last_frame->time on a null last_frame
\* ends the process.
ForwardPropagateLock ==
    /\ bpc = "ForwardPropagate"
    /\ owner["frontend_mutex"] = "none"
    /\ Lock("frontend_mutex", "worker")
    /\ IF last_frame = 0
       THEN /\ bpc' = "Crashed"
            /\ fpc' = "Crashed"
            /\ UNCHANGED forward_kfs
       ELSE /\ forward_kfs' = ForwardFrames
            /\ bpc' = "FPBody"
            /\ UNCHANGED fpc
    /\ UNCHANGED <<config, optVars, cacheVars, imuVars, mapVars, fstatus, num_tries, frameVars, tracking_inliers_, keyframes,
                   bstatus, finished, active_kfs, historyVars>>

\* ForwardPropagate, lines 348-366: the staged schedule, for dt seconds since
\* Tinit and the flags initA and initB.  reinit says whether
\* initializer_->reinit is set; priorA and priorG are the priors handed to the
\* initializer.
StagedInit(dt, a, b) ==
    IF dt > StageATime /\ ~a
    THEN [reinit |-> TRUE, initA |-> TRUE, initB |-> b, priorA |-> 10000, priorG |-> 10]
    ELSE IF dt > StageBTime /\ ~b
    THEN [reinit |-> TRUE, initA |-> a, initB |-> TRUE, priorA |-> 0, priorG |-> 0]
    ELSE [reinit |-> FALSE, initA |-> a, initB |-> b, priorA |-> 1000, priorG |-> 10]

\* ForwardPropagate, lines 351-353: the seconds since Tinit at the newest
\* frame of the forward set.
SinceTinit == IF Tinit # -1 THEN TimeOf(SetMax(forward_kfs)) - Tinit ELSE 0

\* ForwardPropagate, lines 348-366: the stage this call triggers.
Stage ==
    IF imu /\ initialized
    THEN StagedInit(SinceTinit, initA, initB)
    ELSE [reinit |-> FALSE, initA |-> initA, initB |-> initB,
          priorA |-> 1000, priorG |-> 10]

\* ForwardPropagate, lines 368-371: the keyframes handed to the initializer.
FramesInit ==
    IF imu /\ (~initialized \/ reinit \/ Stage.reinit)
    THEN GetKeyFramesRange(0, Forward, NumInitFrames)
    ELSE {}

\* ForwardPropagate, lines 373-378: the initializer runs in this call.  The
\* first keyframe's time is later than validtime, taken as 0.
InitializerRuns ==
    /\ Cardinality(FramesInit) = NumInitFrames
    /\ HasPreintegration(SetMin(FramesInit))

\* ForwardPropagate, lines 348-524.  With an IMU: the
\* staged schedule once initialized; then, when not initialized or reinit is
\* set and the Map has num_frames keyframes before `time`, Tinit is set if not
\* initialized and the initializer runs; when it succeeds the frontend status
\* is set to TRACKING_GOOD (line 389) and bImu on the frames of the forward set
\* that have a preintegration (lines 392-396), besides the keyframes the
\* initializer sets it on.  Then Propagate and the stabilising solve of
\* BuildProblem(active_kfs, problem, false), where a feature whose landmark is
\* gone gives a null pointer at line 104.  `succeeds` is what InitializeIMU
\* returns if it is called.
ForwardPropagateWith(succeeds) ==
    /\ bpc = "FPBody"
    /\ reinit' = (reinit \/ Stage.reinit)
    /\ initA' = Stage.initA
    /\ initB' = Stage.initB
    /\ Tinit' = IF InitializerRuns /\ ~initialized THEN TimeOf(SetMax(FramesInit)) ELSE Tinit
    /\ initialized' = InitializeIMU(InitializerRuns /\ succeeds)
    /\ fstatus' = IF InitializerRuns /\ succeeds THEN "TRACKING_GOOD" ELSE fstatus
    /\ bImu' = IF InitializerRuns /\ succeeds
               THEN bImu \cup InitializeIMUbImu \cup {f \in forward_kfs : HasPreintegration(f)}
               ELSE bImu
    /\ IF \E f \in forward_kfs : ~(features_left[f] \subseteq landmarks)
       THEN /\ Crash
            /\ UNCHANGED <<problem, position_cache_>>
       ELSE /\ problem' = BuildProblem(forward_kfs, features_left, observations, bImu', FALSE)
            /\ position_cache_' = Outdated(position_cache_)
            /\ bpc' = "UpdateCache"
            /\ UNCHANGED fpc
    /\ UNCHANGED <<config, last_keyframe, recovered, optimized, last_frame_pose_cache_, relative_motion,
                   mapVars, num_tries, frameVars, tracking_inliers_, keyframes, bstatus,
                   backendLocals, owner, historyVars>>

\* ForwardPropagate line 525 and UpdateCache, lines 276-282: clear
\* position_cache_ and cache the position of the landmark of each left feature
\* of last_frame.  A feature whose landmark is gone gives a null pointer at
\* line 280.
UpdateCachePositions ==
    /\ bpc = "UpdateCache"
    /\ IF last_frame = 0 \/ ~(features_left[last_frame] \subseteq landmarks)
       THEN /\ Crash
            /\ UNCHANGED position_cache_
       ELSE /\ position_cache_' = [l \in LandmarkIds |->
                                      IF l \in features_left[last_frame]
                                      THEN "fresh" ELSE "none"]
            /\ bpc' = "UpdateCachePose"
            /\ UNCHANGED fpc
    /\ UNCHANGED <<config, optVars, last_frame_pose_cache_, relative_motion, imuVars, mapVars, fstatus,
                   num_tries, frameVars, tracking_inliers_, keyframes, bstatus,
                   backendLocals, owner, historyVars>>

\* UpdateCache, line 283: last_frame_pose_cache_ = last_frame->pose; then
\* ForwardPropagate returns and unlocks the frontend's `mutex`, Optimize sets
\* finished (line 266), returns and unlocks `mutex`, and the loop iteration
\* ends: the snapshots and the problem go out of scope.
UpdateCachePose ==
    /\ bpc = "UpdateCachePose"
    /\ last_frame_pose_cache_' = last_frame
    /\ finished' = NewFinished
    /\ active_kfs' = {}
    /\ forward_kfs' = {}
    /\ problem' = NoProblem
    /\ recovered' = {}
    /\ LET live == Live(keyframes, current_frame, last_frame, {})
       IN /\ features_left' = Destroy(features_left, live)
          /\ id' = DestroyIds(id, live)
          /\ bImu' = bImu \cap live
          /\ last_keyframe' = last_keyframe \cap live
          /\ optimized' = (optimized \cup active_kfs) \cap live
    /\ owner' = [owner EXCEPT !["frontend_mutex"] = "none", !["backend_mutex"] = "none",
                              !["running_mutex"] = "none"]
    /\ bpc' = "LoopTop"
    /\ UNCHANGED <<config, position_cache_, relative_motion, initialized, reinit, initA, initB, Tinit,
                   landmarks, current_frame_id, observations, fstatus, fpc, num_tries,
                   frameVars, tracking_inliers_, keyframes, bstatus, historyVars>>

\* ForwardPropagate, lines 337-526: InitializeIMU (line 387) returns either
\* value.
ForwardPropagateBody == \E succeeds \in BOOLEAN : ForwardPropagateWith(succeeds)

\* std::condition_variable::wait(lock) is called without a predicate at all
\* three call sites (backend.cpp lines 31, 53, 55): it may return without a
\* notification.
SpuriousPausing ==
    /\ fpc = "PauseWaiting"
    /\ fpc' = "PauseWoken"
    /\ UNCHANGED <<config, optVars, cacheVars, imuVars, mapVars, fstatus, num_tries, frameVars, tracking_inliers_, keyframes,
                   bstatus, bpc, backendLocals, owner, historyVars>>

SpuriousRunning ==
    /\ bpc = "RunWaiting"
    /\ bpc' = "RunWoken"
    /\ UNCHANGED <<config, optVars, cacheVars, imuVars, mapVars, fstatus, fpc, num_tries, frameVars, tracking_inliers_,
                   keyframes, bstatus, backendLocals, owner, historyVars>>

SpuriousMapUpdate ==
    /\ bpc = "MapWaiting"
    /\ bpc' = "MapWoken"
    /\ UNCHANGED <<config, optVars, cacheVars, imuVars, mapVars, fstatus, fpc, num_tries, frameVars, tracking_inliers_,
                   keyframes, bstatus, backendLocals, owner, historyVars>>

\* ------------------------------------------------------------- frame ids
\* Frame::Create and Map::InsertKeyFrame as a caller may sequence them: a frame
\* is created, and a created frame newer than every keyframe is promoted.
CreateFrame ==
    /\ nframes < MaxFrames
    /\ nframes' = nframes + 1
    /\ id' = [id EXCEPT ![nframes + 1] = FrameCreate]
    /\ UNCHANGED <<config, optVars, cacheVars, imuVars, landmarks, current_frame_id, features_left, observations,
                   fstatus, fpc, num_tries, current_frame, last_frame, tracking_inliers_,
                   keyframes, bstatus, bpc, backendLocals, owner, historyVars>>

PromoteFrame ==
    /\ \E f \in 1..nframes :
          /\ \A k \in keyframes : k < f
          /\ InsertKeyFrame(f)
    /\ UNCHANGED <<config, problem, recovered, optimized, cacheVars, imuVars, landmarks, id, features_left, observations, fstatus, fpc,
                   num_tries, frameVars, tracking_inliers_, bstatus, bpc, backendLocals,
                   owner, historyVars>>

IdNext == CreateFrame \/ PromoteFrame
IdSpec == Init /\ [][IdNext]_vars

\* ------------------------------------------------------------- the program
Pause == PauseCheck \/ PauseSet \/ PauseWait \/ PauseReturn
Continue == ContinueCheck \/ ContinueSet \/ ContinueNotify
Reset == Pause \/ MapReset \/ Continue \/ ResetStatus
AddFrame ==
    \/ AddFrameStart \/ StereoInit \/ TrackLastFrame \/ Track \/ CreateKeyframe
    \/ FrontendUpdateMap \/ AddFrameFinish \/ Reset
ForwardPropagate ==
    ForwardPropagateLock \/ ForwardPropagateBody \/ UpdateCachePositions \/ UpdateCachePose
Optimize == OptimizeStart \/ OptimizeCleanup \/ ForwardPropagate
BackendLoop ==
    LoopTop \/ SetPausing \/ NotifyPausing \/ RunWait \/ RunWake \/ Optimize
SpuriousWakeup == SpuriousPausing \/ SpuriousRunning \/ SpuriousMapUpdate

Next ==
    \/ AddFrameStart \/ StereoInit \/ TrackLastFrame \/ Track \/ CreateKeyframe
    \/ FrontendUpdateMap \/ AddFrameFinish
    \/ PauseCheck \/ PauseSet \/ PauseWait \/ PauseReturn \/ MapReset
    \/ ContinueCheck \/ ContinueSet \/ ContinueNotify \/ ResetStatus
    \/ LoopTop \/ SetPausing \/ NotifyPausing \/ RunWait \/ RunWake
    \/ OptimizeStart \/ OptimizeCleanup \/ ForwardPropagateLock \/ ForwardPropagateBody
    \/ UpdateCachePositions \/ UpdateCachePose
    \/ SpuriousPausing \/ SpuriousRunning \/ SpuriousMapUpdate

Spec == Init /\ [][Next]_vars

\* The program with a driver that creates each frame some time before it hands
\* it to AddFrame; one configuration, no IMU.
CreatedInit ==
    /\ InitWith({c \in Configs : c.tracking_bad > 0}, MaxKeyframes)
    /\ ~imu

NextCreated ==
    \/ CreateFrameAhead \/ AddFrameStartCreated
    \/ StereoInit \/ TrackLastFrame \/ Track \/ CreateKeyframe
    \/ FrontendUpdateMap \/ AddFrameFinish
    \/ PauseCheck \/ PauseSet \/ PauseWait \/ PauseReturn \/ MapReset
    \/ ContinueCheck \/ ContinueSet \/ ContinueNotify \/ ResetStatus
    \/ LoopTop \/ SetPausing \/ NotifyPausing \/ RunWait \/ RunWake
    \/ OptimizeStart \/ OptimizeCleanup \/ ForwardPropagateLock \/ ForwardPropagateBody
    \/ UpdateCachePositions \/ UpdateCachePose
    \/ SpuriousPausing \/ SpuriousRunning \/ SpuriousMapUpdate

CreatedSpec == CreatedInit /\ [][NextCreated]_vars

\* The program with room for three keyframes, with an IMU.
WindowSpec == WindowInit /\ [][Next]_vars

\* The program configured to need two triangulated landmarks for the stereo
\* initialization (num_features_init), so that an initialization can triangulate
\* a landmark and fail.
TwoToInit == [init |-> 2, tracking |-> 2, tracking_bad |-> 1, need_for_keyframe |-> 3]

TwoToInitInit == InitWith({TwoToInit}, MaxKeyframes)

TwoToInitSpec == TwoToInitInit /\ [][Next]_vars

\* The program when no wait ever returns without a notification.
NextNotified ==
    \/ AddFrameStart \/ StereoInit \/ TrackLastFrame \/ Track \/ CreateKeyframe
    \/ FrontendUpdateMap \/ AddFrameFinish
    \/ PauseCheck \/ PauseSet \/ PauseWait \/ PauseReturn \/ MapReset
    \/ ContinueCheck \/ ContinueSet \/ ContinueNotify \/ ResetStatus
    \/ LoopTop \/ SetPausing \/ NotifyPausing \/ RunWait \/ RunWake
    \/ OptimizeStart \/ OptimizeCleanup \/ ForwardPropagateLock \/ ForwardPropagateBody
    \/ UpdateCachePositions \/ UpdateCachePose

SpecNotified == Init /\ [][NextNotified]_vars

TypeOK ==
    /\ fstatus \in FrontendStatuses
    /\ bstatus \in BackendStatuses
    /\ num_tries \in 0..(MaxTries - 1)
    /\ keyframes \subseteq 1..MaxFrames
    /\ owner \in [Mutexes -> {"none", "driver", "worker"}]


\* Fair scheduling of the two threads: a thread that can take a step of the
\* code eventually takes it.  A wait that no notification ends may stay
\* blocked: nothing obliges a spurious wakeup to happen.
FairSpec == Spec /\ WF_vars(AddFrame) /\ WF_vars(BackendLoop)

\* ------------------------------------------------------------- properties
\* The worker is inside Optimize (ForwardPropagate included).
InOptimize ==
    bpc \in {"Cleanup", "ForwardPropagate", "FPBody", "UpdateCache", "UpdateCachePose"}
\* The driver is inside AddFrame, between locking and unlocking its mutex.
InAddFrame == owner["last_frame_mutex"] = "driver"
\* The driver is between the return of Pause and the call of Continue.
PauseReturned == fpc = "MapReset"

\* C1: a Pause that found the status RUNNING returns only after the worker has
\* set the status to PAUSING, and not while the worker is running a cycle.
C1_PauseReturnsAfterPausing ==
    (PauseReturned /\ pauseWaited) => (bstatus = "PAUSING" /\ ~InOptimize)

\* C2: from the return of Pause to the call of Continue (the Map reset lies in
\* between) the worker is not inside Optimize or ForwardPropagate.
C2_QuiescentWhilePaused == PauseReturned => ~InOptimize

\* C3: the backend status changes only RUNNING -> TO_PAUSE by Pause,
\* TO_PAUSE -> PAUSING by the worker loop, PAUSING -> RUNNING by Continue.
C3_StatusTransitions ==
    [][bstatus' # bstatus =>
          \/ bstatus = "RUNNING" /\ bstatus' = "TO_PAUSE" /\ fpc = "PauseSet"
          \/ bstatus = "TO_PAUSE" /\ bstatus' = "PAUSING" /\ bpc = "SetPausing"
          \/ bstatus = "PAUSING" /\ bstatus' = "RUNNING" /\ fpc = "ContinueSet"]_vars

\* C3 witness: Continue has just put the status back to RUNNING, so all three
\* changes have been made.
C3_Witness == fpc = "ContinueNotify" /\ bstatus = "RUNNING"

\* C4: an UpdateMap made before the worker next waits on map_update is not
\* lost: the worker is never blocked in that wait with such a call pending.
C4_NotificationsCoalesced == ~(bpc = "MapWaiting" /\ pendingUpdate)

\* C5: under fair scheduling the worker does not stay blocked on running_
\* while the status is RUNNING.
C5_WorkerReleased == (bpc = "RunWaiting" /\ bstatus = "RUNNING") ~> (bpc # "RunWaiting")

\* C6: AddFrame and ForwardPropagate never execute at the same time.
C6_AddFrameExcludesForwardPropagate == ~(InAddFrame /\ bpc = "FPBody")

\* C7: inside AddFrame the driver never blocks on a condition variable, in any
\* frontend status.
C7_NoWaitInAddFrame == ~(InAddFrame /\ fpc = "PauseWaiting")

\* C7 amended: inside an AddFrame whose switch read a status other than LOST
\* the driver never blocks on a condition variable.
C7_NoWaitUnlessLost == (InAddFrame /\ switchCase # "LOST") => fpc # "PauseWaiting"

\* C7 witness: AddFrame is under way in a tracking status, holding its mutex,
\* and has tracked the last frame.
C7_Witness == InAddFrame /\ switchCase = "TRACKING_TRY" /\ fpc = "Track"

\* C8: the backend's outlier cleanup never runs while the frontend reads the
\* features of a last_frame that is in the backend's window.
C8_NoCleanupDuringTracking ==
    ~(bpc = "Cleanup" /\ fpc = "TrackLastFrame" /\ last_frame \in active_kfs)

\* A step of Track's classification, and whether the track failed.
TrackStep == fpc = "Track" /\ fpc' \notin {"Track", "Crashed"}
TrackFailed == tracking_inliers_ <= num_features_tracking_bad_

\* C9: Track makes the status LOST exactly on the 4th failure in a row, and
\* TRACKING_TRY on the 1st to 3rd; a success zeroes the failure count, and the
\* count is zero right after LOST.
C9_LostOnFourthFailure ==
    [][TrackStep =>
          /\ TrackFailed => fstatus' = IF consecFails + 1 = 4 THEN "LOST" ELSE "TRACKING_TRY"
          /\ ~TrackFailed => (fstatus' # "LOST" /\ num_tries' = 0)
          /\ fstatus' = "LOST" => num_tries' = 0
          /\ num_tries' = consecFails']_vars

\* C9 witness: Track has just made the status LOST.
C9_Witness == fstatus = "LOST" /\ fpc = "Idle" /\ switchCase = "none"

\* C10: Track sets TRACKING_GOOD iff n > tracking, TRACKING_BAD iff
\* tracking_bad < n <= tracking, and otherwise counts a failure (TRACKING_TRY or
\* LOST) and AddFrame returns from the failed track at once.
C10_Classification ==
    [][TrackStep =>
          /\ fstatus' = "TRACKING_GOOD" <=> tracking_inliers_ > num_features_tracking_
          /\ fstatus' = "TRACKING_BAD" <=>
                 /\ tracking_inliers_ > num_features_tracking_bad_
                 /\ tracking_inliers_ <= num_features_tracking_
          /\ tracking_inliers_ <= num_features_tracking_bad_ <=>
                 /\ fstatus' \in {"TRACKING_TRY", "LOST"}
                 /\ fpc' = "Idle"
                 /\ num_tries' = (num_tries + 1) % 4]_vars

\* C10 witness: Track has classified a frame as TRACKING_BAD.
C10_Witness == fstatus = "TRACKING_BAD" /\ fpc \in {"CreateKeyframe", "Finish"}

\* C11: once the frontend status is LOST only Reset, called by the next
\* AddFrame, changes it: the status leaves LOST at line 269 of Reset and
\* nowhere else.
C11_LostUntilReset ==
    [][(fstatus = "LOST" /\ fstatus' # "LOST") => (fpc = "ResetStatus" /\ fpc' = "StereoInit")]_vars

\* The driver's position changes by a step of its own code.
DriverStep == fpc' # fpc /\ fpc' # "Crashed"

\* C12: Reset runs Pause, then the Map reset, then Continue, then sets the
\* status to INITING: the Map reset starts when Pause returns, is followed by
\* Continue, no other driver step clears the Map, and Reset ends by setting the
\* status.
C12_ResetOrder ==
    [][DriverStep =>
          /\ fpc' = "MapReset" => fpc \in {"PauseCheck", "PauseWoken"}
          /\ fpc = "MapReset" => (fpc' = "ContinueCheck" /\ keyframes' = {})
          /\ fpc' = "ContinueCheck" => fpc = "MapReset"
          /\ fpc' = "ResetStatus" => fpc \in {"ContinueCheck", "ContinueNotify"}
          /\ fpc = "ResetStatus" => (fstatus' = "INITING" /\ fpc' = "StereoInit")]_vars

\* C12 witness: a Reset has run to its end on a Map that had keyframes.
C12_Witness == fpc = "StereoInit" /\ switchCase = "LOST" /\ fstatus = "INITING"

\* AddFrame returns false: the "return false" of line 43, after a failed Track.
AddFrameReturnsFalse == fpc = "Track" /\ fpc' = "Idle"

\* C14: AddFrame returns false only for a frame that put the status to LOST; a
\* failed track that leaves TRACKING_TRY returns true.
C14_FalseOnlyForLost == [][AddFrameReturnsFalse => fstatus' = "LOST"]_vars

\* A step of StereoInit, and the number of landmarks it triangulated on
\* current_frame.
StereoInitStep == fpc = "StereoInit" /\ fpc' \notin {"StereoInit", "Crashed"}
Triangulated ==
    Cardinality(features_left'[current_frame]) - Cardinality(features_left[current_frame])

\* C13: in status INITING, StereoInit sets TRACKING_GOOD, inserts the frame as
\* a keyframe and goes on to notify the backend iff at least num_features_init_
\* landmarks were triangulated; otherwise the status stays INITING and no
\* keyframe is inserted.
C13_StereoInitIff ==
    [][(StereoInitStep /\ switchCase = "INITING") =>
          /\ Triangulated >= num_features_init_ <=>
                 /\ fstatus' = "TRACKING_GOOD"
                 /\ keyframes' = keyframes \cup {current_frame}
                 /\ fpc' = "UpdateMap"
          /\ Triangulated < num_features_init_ =>
                 /\ fstatus' = "INITING"
                 /\ keyframes' = keyframes
                 /\ fpc' = "Finish"]_vars

\* C13 witness: StereoInit has succeeded in status INITING.
C13_Witness ==
    /\ fpc = "UpdateMap" /\ switchCase = "INITING"
    /\ fstatus = "TRACKING_GOOD" /\ current_frame \in keyframes

\* No operation is in progress: the driver is between AddFrame calls and the
\* worker is blocked in a wait.
Quiescent == fpc = "Idle" /\ bpc \in {"MapWaiting", "RunWaiting"}

\* C15: when no operation is in progress every feature in a frame's table is in
\* the observations of its landmark.  (That it refers to the frame whose table
\* holds it is how the tables are built: Feature::Create(current_frame, ...).)
C15_FeaturesObserved ==
    Quiescent => \A f \in Frames : \A l \in features_left[f] : f \in observations[l]

\* C16: when the outlier cleanup removes a landmark from the Map, no frame is
\* left with a feature that refers to it.
C16_NoFeatureOfRemovedLandmark ==
    [][(bpc = "Cleanup" /\ bpc' = "ForwardPropagate") =>
          \A l \in landmarks \ landmarks' : \A f \in Frames : l \notin features_left'[f]]_vars

\* C17: of two keyframes in the Map the one inserted later has the larger time
\* and the strictly larger id.
C17_IdsIncrease ==
    \A a, b \in keyframes : a < b => (TimeOf(a) < TimeOf(b) /\ id[a] < id[b])

\* C18: a frame inserted into the Map as a keyframe stays in the Map.
C18_KeyframesStay == [][keyframes \subseteq keyframes']_vars

\* C18 amended: a keyframe leaves the Map only when Frontend::Reset clears the
\* Map; the backend removes landmarks only.
C18_KeyframesStayUntilReset ==
    [][keyframes \subseteq keyframes' \/ (fpc = "MapReset" /\ fpc' = "ContinueCheck")]_vars

\* C18 witness: the outlier cleanup has run on a window of two keyframes or
\* more, and they are all still in the Map.
C18_Witness ==
    /\ bpc = "ForwardPropagate"
    /\ Cardinality(active_kfs) >= 2
    /\ active_kfs \subseteq keyframes

\* C19: if the inertial initializer is attempted during ForwardPropagate and
\* returns false, then Tinit, the initialized flag, the b_imu flag of every
\* frame that still exists and the frontend status are the same after the
\* attempt as before.
C19_FailedInitChangesNothing ==
    [][(ForwardPropagateWith(FALSE) /\ InitializerRuns)
        => /\ Tinit' = Tinit
           /\ initialized' = initialized
           /\ fstatus' = fstatus
           /\ \A f \in Frames : id'[f] # 0 => (f \in bImu' <=> f \in bImu)]_vars

\* C20: with dt the time since Tinit, a ForwardPropagate that consults the
\* staged schedule triggers no stage for dt < 5; triggers stage A (reinit set,
\* initA marked, priors (1e4, 1e1)) for 5 <= dt < 15 with initA unset; and
\* triggers stage B (reinit set, initB marked, priors (0, 0)) for dt >= 15
\* with initB unset, whatever initA is.
C20_StagedSchedule ==
    [][(ForwardPropagateBody /\ imu /\ initialized /\ Tinit # -1)
        => LET dt == SinceTinit
           IN /\ dt < StageATime
                    => (~Stage.reinit /\ initA' = initA /\ initB' = initB)
              /\ (StageATime <= dt /\ dt < StageBTime /\ ~initA)
                    => /\ reinit' /\ initA'
                       /\ Stage.priorA = 10000 /\ Stage.priorG = 10
              /\ (dt >= StageBTime /\ ~initB)
                    => /\ reinit' /\ initB'
                       /\ Stage.priorA = 0 /\ Stage.priorG = 0]_vars

C22_CacheMatchesLastFrame ==
    [][UpdateCachePose
        => /\ \A l \in LandmarkIds :
                  IF l \in features_left'[last_frame']
                  THEN position_cache_'[l] = "fresh"
                  ELSE position_cache_'[l] = "none"
           /\ last_frame_pose_cache_' = last_frame']_vars

\* C23: every keyframe of the Map with time <= finished has been in the
\* window (active set) of at least one completed Optimize cycle.
C23_FinishedKeyframesOptimized ==
    \A k \in keyframes : TimeOf(k) <= finished => k \in optimized

\* A keyframe at or before finished, after the cycle that had it in its window.
C23_Witness ==
    /\ bpc = "LoopTop"
    /\ \E k \in keyframes : TimeOf(k) <= finished /\ k \in optimized
    /\ \E k \in keyframes : TimeOf(k) > finished

\* C24: Track promotes the current frame exactly when the track succeeded
\* (status TRACKING_GOOD or TRACKING_BAD) and the feature count is below
\* num_features_needed_for_keyframe_; a promotion, by Track or by StereoInit,
\* inserts current_frame into the Map and then calls Backend::UpdateMap before
\* AddFrame returns; a failed Track inserts nothing and notifies nobody.
C24_PromotionInsertsThenNotifies ==
    [][/\ Track =>
            /\ (fpc' = "CreateKeyframe")
                  <=> /\ fstatus' \in {"TRACKING_GOOD", "TRACKING_BAD"}
                      /\ tracking_inliers_ < num_features_needed_for_keyframe_
            /\ fstatus' \notin {"TRACKING_GOOD", "TRACKING_BAD"}
                  => /\ fpc' = "Idle"
                     /\ UNCHANGED <<keyframes, bpc, pendingUpdate>>
       /\ keyframes' # keyframes /\ keyframes' # {}
            => /\ fpc \in {"CreateKeyframe", "StereoInit"}
               /\ keyframes' = keyframes \cup {current_frame}
               /\ fpc' = "UpdateMap"
       /\ fpc = "UpdateMap" /\ fpc' # fpc
            => \/ fpc' = "Crashed"
               \/ /\ fpc' = "Finish"
                  /\ bpc = "MapWaiting" => bpc' = "MapWoken"
                  /\ bpc \notin {"MapWaiting", "MapWoken"} => pendingUpdate'
       /\ fpc # "Idle" /\ fpc' = "Idle" => fpc \in {"Finish", "Track"}]_vars

\* Track promoted current_frame, which is in the Map, and UpdateMap is next.
C24_Witness ==
    /\ fpc = "UpdateMap"
    /\ switchCase \in TrackingStatuses
    /\ current_frame \in keyframes
    /\ bpc = "MapWaiting"

\* The frame of window just before f.
Adjacent(window, p, f) == p \in window /\ p < f /\ ~(\E k \in window : p < k /\ k < f)

VisualResidualsMatch(window, feat, obs, prob) ==
    /\ \A r \in prob.visual : r.frame \in window /\ r.landmark \in feat[r.frame]
    /\ \A f \in window : \A l \in feat[f] :
          LET first == FirstFrame(obs, l)
              blocks == {r \in prob.visual : r.frame = f /\ r.landmark = l}
          IN /\ TimeOf(first) < TimeOf(SetMin(window)) \/ first \in window
             /\ TimeOf(first) < TimeOf(SetMin(window))
                   => blocks = {[type |-> "PoseOnlyReprojectionError", frame |-> f,
                                 landmark |-> l, first_frame |-> 0]}
             /\ first \in window /\ first # f
                   => blocks = {[type |-> "TwoFrameReprojectionError", frame |-> f,
                                 landmark |-> l, first_frame |-> first]}
             /\ first = f => blocks = {}

\* C26: for every left feature of every frame of the window BuildProblem adds
\* one visual residual by the landmark's first frame: pose-only when the first
\* frame is before the window start, two-frame (first frame, this frame) when
\* the first frame is another frame of the window, none when it is this frame.
C26_VisualResidualByFirstFrame ==
    [][/\ OptimizeCleanup /\ bpc' = "ForwardPropagate"
            => VisualResidualsMatch(active_kfs, features_left, observations, problem')
       /\ ForwardPropagateBody /\ bpc' = "UpdateCache"
            => VisualResidualsMatch(forward_kfs, features_left, observations, problem')]_vars

\* Optimize built a problem with a two-frame residual for one keyframe of the
\* window and none for the features of the landmark's first frame.
C26_Witness ==
    /\ bpc = "ForwardPropagate"
    /\ \E r \in problem.visual :
          /\ r.type = "TwoFrameReprojectionError"
          /\ r.first_frame \in active_kfs
          /\ ~(\E q \in problem.visual : q.frame = r.first_frame)

\* The feature of window keyframe f on landmark l fails the test of the
\* cleanup: its error is over 10 and f is not the landmark's first frame.
IsOutlier(outliers, f, l) == <<f, l>> \in outliers /\ f # FirstFrame(observations, l)

\* The observations of l when the cleanup examines keyframe f: those before
\* the cleanup less the features detached up to f.
ObservationsAt(outliers, f, l) ==
    observations[l] \ {g \in active_kfs : g <= f /\ IsOutlier(outliers, g, l)}

\* The features of the landmarks in lms: one is detached, from the feature
\* table and from the observations, exactly when it fails the test.
DetachedIffOutlier(outliers, lms) ==
    \A p \in WindowFeatures :
        p[2] \in lms =>
            /\ p[2] \notin features_left'[p[1]] <=> IsOutlier(outliers, p[1], p[2])
            /\ p[1] \in observations[p[2]]
                  => (p[1] \notin observations'[p[2]] <=> IsOutlier(outliers, p[1], p[2]))

\* The landmarks in lms keep the observation of their first frame.
FirstFrameKept(lms) ==
    \A l \in lms : observations[l] # {} =>
        /\ FirstFrame(observations, l) \in observations'[l]
        /\ l \in features_left[FirstFrame(observations, l)]
              => l \in features_left'[FirstFrame(observations, l)]

\* A landmark is removed exactly when a window keyframe other than the one
\* whose id is Frame::current_frame_id is examined with the landmark left
\* with at most one observation.
RemovedWhenLeftWithOne(outliers) ==
    \A l \in landmarks :
        l \notin landmarks'
            <=> \E f \in active_kfs :
                    /\ l \in features_left[f]
                    /\ id[f] # current_frame_id
                    /\ Cardinality(ObservationsAt(outliers, f, l)) <= 1

\* C27, as stated: every feature of the window is detached if and only if
\* its error is over 10 and its keyframe is not the landmark's first frame,
\* no landmark loses the observation of its first frame, and a landmark is
\* removed when left with at most one observation unless the keyframe
\* examined is the current one.
C27_DetachedIffOutlier ==
    [][\A outliers \in SUBSET WindowFeatures :
          OptimizeCleanupWith(outliers) /\ bpc' = "ForwardPropagate"
              => /\ DetachedIffOutlier(outliers, landmarks)
                 /\ FirstFrameKept(landmarks)
                 /\ RemovedWhenLeftWithOne(outliers)]_vars

\* C27, amended: the same for the features and the first frames of the
\* landmarks that stay in the Map; the removal of a landmark detaches the
\* features it still has, its first frame's included.
C27_DetachedIffOutlierUnlessRemoved ==
    [][\A outliers \in SUBSET WindowFeatures :
          OptimizeCleanupWith(outliers) /\ bpc' = "ForwardPropagate"
              => /\ DetachedIffOutlier(outliers, landmarks')
                 /\ FirstFrameKept(landmarks')
                 /\ RemovedWhenLeftWithOne(outliers)
                 /\ \A l \in landmarks \ landmarks' :
                        /\ observations'[l] = {}
                        /\ \A f \in observations[l] : l \notin features_left'[f]]_vars

\* After a cleanup: a feature the problem had a two-frame residual for is
\* detached, and its landmark is in the Map with its first frame's observation.
C27_Witness ==
    /\ bpc = "ForwardPropagate"
    /\ \E r \in problem.visual :
          /\ r.type = "TwoFrameReprojectionError"
          /\ r.landmark \in landmarks
          /\ r.landmark \notin features_left[r.frame]
          /\ r.first_frame \in observations[r.landmark]

\* C28: in every ForwardPropagate call the frames the transform and the
\* stabilising solve are applied to are the Map's keyframes with time >= the
\* given time, and the frontend's last_frame, keyframe or not, older or not.
C28_ForwardSetHasLastFrame ==
    [][/\ ForwardPropagateLock /\ bpc' = "FPBody"
            => /\ forward_kfs' = {k \in keyframes : TimeOf(k) >= Forward} \cup {last_frame}
               /\ last_frame \in forward_kfs'
       /\ ForwardPropagateBody /\ bpc' = "UpdateCache"
            => \A r \in problem'.visual : r.frame \in forward_kfs]_vars

\* ForwardPropagate took a last_frame that is no keyframe and is older than
\* the given time.
C28_Witness ==
    /\ bpc = "FPBody"
    /\ last_frame \in forward_kfs
    /\ last_frame \notin keyframes
    /\ TimeOf(last_frame) < Forward
    /\ \E k \in forward_kfs : k \in keyframes

\* C29: recoverData runs only with an IMU and the initializer initialized,
\* and rewrites pose, velocity and bias of the window's keyframes that have a
\* preintegration, a last_keyframe and bImu, and of no other frame.
C29_RecoverDataOnlyFlaggedWindowKeyframes ==
    [][OptimizeCleanup /\ bpc' = "ForwardPropagate"
          => /\ recovered' # {} => imu /\ initialized
             /\ recovered' \subseteq active_kfs \cap preintegration \cap last_keyframe \cap bImu
             /\ imu /\ initialized
                   => active_kfs \cap preintegration \cap last_keyframe \cap bImu
                          \subseteq recovered']_vars

\* recoverData rewrote one keyframe of the window and left another.
C29_Witness ==
    /\ bpc = "ForwardPropagate"
    /\ recovered # {}
    /\ active_kfs \ recovered # {}

\* C30: under fair scheduling every Reset that AddFrame starts in status LOST
\* completes (Pause returns, the Map is reset, Continue is issued), whatever
\* the worker is doing when Pause is called.
C30_ResetCompletes == (fpc = "PauseCheck") ~> (fpc \in {"ResetStatus", "Crashed"})

\* What a failed Track must leave alone: last_frame, the caches,
\* relative_motion, the Map and the observations, and the features and ids of
\* the frames other than current_frame.
FailedTrackFrame ==
    /\ UNCHANGED <<last_frame, last_frame_pose_cache_, relative_motion, position_cache_,
                   keyframes, landmarks, observations, current_frame_id>>
    /\ \A f \in Frames \ {current_frame} :
          features_left'[f] = features_left[f] /\ id'[f] = id[f]

\* C31: an AddFrame call whose Track fails returns false and changes only
\* current_frame, the status and the failure counter: TrackLastFrame with too
\* few tracked features, and the classification that follows, leave
\* last_frame, last_frame_pose_cache_, relative_motion, position_cache_, the
\* Map and the observations as they were.
C31_FailedTrackChangesOnlyCurrentFrame ==
    [][/\ (TrackLastFrame /\ fpc' = "Track"
             /\ tracking_inliers_' <= num_features_tracking_bad_) => FailedTrackFrame
       /\ (Track /\ tracking_inliers_ <= num_features_tracking_bad_)
             => /\ FailedTrackFrame
                /\ fpc' = "Idle"
                /\ UNCHANGED current_frame]_vars

\* The cleanup calls Frame::RemoveFeature for the feature of window keyframe
\* f on landmark l: the feature fails the test of line 229 and no keyframe
\* examined before f had the landmark removed.
RemoveFeatureCalled(outliers, f, l) ==
    /\ IsOutlier(outliers, f, l)
    /\ ~(\E g \in active_kfs :
            /\ g < f
            /\ l \in features_left[g]
            /\ id[g] # current_frame_id
            /\ Cardinality(ObservationsAt(outliers, g, l)) <= 1)

\* Frame::RemoveFeature, line 33: the assertion, for the feature of frame f on
\* landmark l.  The cleanup iterates features_left, so the feature is on the
\* left image; the landmark's first frame is read after RemoveObservation took
\* f out of the observations.
RemoveFeatureAssertion(f, l) ==
    LET first_frame == FirstFrame([observations EXCEPT ![l] = @ \ {f}], l)
    IN first_frame # 0 /\ id[first_frame] # 0 /\ id[f] # id[first_frame]

\* C32: the assertion in Frame::RemoveFeature holds at every call the outlier
\* cleanup makes.
C32_RemoveFeatureAssertionHolds ==
    [][\A outliers \in SUBSET WindowFeatures :
          OptimizeCleanupWith(outliers) /\ bpc' = "ForwardPropagate"
              => \A p \in WindowFeatures :
                    RemoveFeatureCalled(outliers, p[1], p[2])
                        => RemoveFeatureAssertion(p[1], p[2])]_vars

\* A step of StereoInit that fails: AddFrame goes on to its end with no keyframe
\* inserted.
StereoInitFails == StereoInitStep /\ fpc' = "Finish"

\* C33: between AddFrame calls every landmark in the Map has an observation in a
\* keyframe of the Map, and a stereo initialization that fails leaves the Map's
\* landmarks and position_cache_ as they were.
C33_LandmarksObservedByKeyframes ==
    [][/\ fpc' = "Idle" => \A l \in landmarks' : observations'[l] \cap keyframes' # {}
       /\ StereoInitFails => UNCHANGED <<landmarks, position_cache_>>]_vars

\* The two parameter blocks of every two-frame residual of prob are poses of
\* frames of window, the blocks BuildProblem added with the pose
\* parameterization (line 99).
ReferencePosesRegistered(window, prob) ==
    \A r \in prob.visual :
        r.type = "TwoFrameReprojectionError" => r.first_frame \in window /\ r.frame \in window

\* C34: every two-frame reprojection residual BuildProblem adds, in Optimize
\* and in ForwardPropagate, takes its reference pose from a frame of the set
\* BuildProblem was given, so both its parameter blocks are registered poses.
C34_ReferencePoseInActiveSet ==
    [][/\ OptimizeCleanup /\ bpc' = "ForwardPropagate"
            => ReferencePosesRegistered(active_kfs, problem')
       /\ ForwardPropagateBody /\ bpc' = "UpdateCache"
            => ReferencePosesRegistered(forward_kfs, problem')]_vars

\* ForwardPropagate built a problem with a two-frame residual whose reference
\* frame is last_frame, a frame before the keyframes after `forward` that is in
\* the set because ForwardPropagate added it.
C34_Witness ==
    /\ bpc = "UpdateCache"
    /\ \E r \in problem.visual :
          /\ r.type = "TwoFrameReprojectionError"
          /\ r.first_frame = last_frame
          /\ r.first_frame \notin GetKeyFrames(Forward)
          /\ r.frame \in GetKeyFrames(Forward)

====
